---- MODULE Spec2Model ----
(***************************************************************************)
(* Model of the custom-react-starter scaffolding CLI.                      *)
(*                                                                         *)
(* Three entry scripts are modelled, each a straight-line pipeline:        *)
(*   "prompts"  : src/bin/cli.js, second script (lines 259-718), the       *)
(*                @inquirer/prompts variant with configure* helpers;       *)
(*   "flags"    : src/unnamed/part_002, the flag-based variant (parseArgs);*)
(*   "inquirer" : src/bin/cli.js, first script (lines 1-257), the legacy   *)
(*                inquirer variant taking the name from process.argv[2].   *)
(*                                                                         *)
(* Text is modelled as sequences of one-character strings, so that trim,   *)
(* toLowerCase, startsWith, split and the name pattern are computed, not   *)
(* assumed.                                                                *)
(***************************************************************************)
EXTENDS Integers, Sequences, FiniteSets, TLC

VARIABLES
    variant,    \* which entry script is running
    pc,         \* position of main() in that script
    argv,       \* process.argv.slice(2): sequence of argument texts
    typed,      \* last text submitted at the project-name prompt
    options,    \* the resolved options record
    fsys,       \* the part of the filesystem the scripts touch
    exitCode,   \* NotExited while running, else the process exit status
    log,        \* effects performed so far, in order (subprocesses, fs mutations)
    printed,    \* kinds of messages written by log.error / log.warning / showHelp
    fs0,        \* the filesystem as it was when the script started
    fin,        \* input of the pure function under test (SpecName)
    fout        \* its output

vars == <<variant, pc, argv, typed, options, fsys, exitCode, log, printed, fs0, fin, fout>>

----------------------------------------------------------------------------
(* Bounds *)

MaxNameLen == 3      \* longest text fed to validateProjectName in SpecName
MaxArgs == 3         \* longest argument list of the flag-based variant

----------------------------------------------------------------------------
(* Text helpers *)

LowerLetters ==
    {"a","b","c","d","e","f","g","h","i","j","k","l","m",
     "n","o","p","q","r","s","t","u","v","w","x","y","z"}

Digits == {"0","1","2","3","4","5","6","7","8","9"}

UpperToLower ==
    [c \in {"A","B","M","N"} |->
        CASE c = "A" -> "a" [] c = "B" -> "b" [] c = "M" -> "m" [] c = "N" -> "n"]

Whitespace == {" "}

RECURSIVE trimStart(_)
trimStart(s) ==
    IF s # <<>> /\ Head(s) \in Whitespace THEN trimStart(Tail(s)) ELSE s

RECURSIVE trimEnd(_)
trimEnd(s) ==
    IF s # <<>> /\ s[Len(s)] \in Whitespace
    THEN trimEnd(SubSeq(s, 1, Len(s) - 1))
    ELSE s

\* String.prototype.trim
trim(s) == trimEnd(trimStart(s))

\* String.prototype.toLowerCase
toLowerCase(s) ==
    [i \in 1..Len(s) |->
        IF s[i] \in DOMAIN UpperToLower THEN UpperToLower[s[i]] ELSE s[i]]

\* String.prototype.startsWith
startsWith(s, p) == Len(s) >= Len(p) /\ SubSeq(s, 1, Len(p)) = p

\* /^[a-z0-9-]+$/.test(s)
NamePattern(s) ==
    /\ Len(s) >= 1
    /\ \A i \in 1..Len(s) : s[i] \in LowerLetters \cup Digits \cup {"-"}

\* index of the first "=" at or after position i, or Len(s)+1
RECURSIVE nextEq(_, _)
nextEq(s, i) ==
    IF i > Len(s) THEN Len(s) + 1
    ELSE IF s[i] = "=" THEN i ELSE nextEq(s, i + 1)

\* the JavaScript value undefined, kept apart from every text
Undefined == <<"undefined">>

\* s.split("=")[1]
splitEq1(s) ==
    LET e1 == nextEq(s, 1) IN
    IF e1 > Len(s) THEN Undefined
    ELSE SubSeq(s, e1 + 1, nextEq(s, e1 + 1) - 1)

\* truthiness of a text-or-undefined value
Truthy(s) == s # Undefined /\ s # <<>>

----------------------------------------------------------------------------
(* Texts that occur in the scripts *)

\* the argument texts parseArgs compares with, and the package managers
S ==
    [dd |-> <<"-","-">>,
     all |-> <<"-","-","a","l","l">>,
     a |-> <<"-","a">>,
     tailwind |-> <<"-","-","t","a","i","l","w","i","n","d">>,
     i18n |-> <<"-","-","i","1","8","n">>,
     help |-> <<"-","-","h","e","l","p">>,
     h |-> <<"-","h">>,
     authPages |-> <<"-","-","a","u","t","h","-","p","a","g","e","s">>,
     pmEq |-> <<"-","-","p","m","=">>,
     npm |-> <<"n","p","m">>,
     pnpm |-> <<"p","n","p","m">>,
     yarn |-> <<"y","a","r","n">>,
     bun |-> <<"b","u","n">>]
PackageManagers == {S.npm, S.pnpm, S.yarn, S.bun}

----------------------------------------------------------------------------
(* validateProjectName, the validate callback of the project-name prompt *)

\* what the validate callback returns: true or one of two messages
Valid ==
    [ok |-> "true",
     empty |-> "Project name cannot be empty",
     pattern |-> "Project name should only contain lowercase letters, numbers, and hyphens"]

\* variant of validateProjectName that tests the pattern on the text as typed
validateProjectName_untrimmed(name) ==
    IF trim(name) = <<>> THEN Valid.empty
    ELSE IF ~NamePattern(name) THEN Valid.pattern
    ELSE Valid.ok

validateProjectName(name) ==
    LET sanitized == trim(name) IN
    IF sanitized = <<>> THEN Valid.empty
    ELSE IF ~NamePattern(sanitized) THEN Valid.pattern
    ELSE Valid.ok

----------------------------------------------------------------------------
(* parseArgs of the flag-based variant *)

NotExited == -1

\* the options literal of parseArgs; reactQuery and initializeGit are the two
\* answers only the prompts variant resolves (never set by parseArgs)
DefaultOptions ==
    [tailwind |-> FALSE, i18n |-> FALSE, projectName |-> <<>>, help |-> FALSE,
     packageManager |-> S.pnpm, authPages |-> FALSE,
     reactQuery |-> FALSE, initializeGit |-> FALSE]

\* args.find((arg) => !arg.startsWith("--"))
findName(args) ==
    IF \E i \in 1..Len(args) : ~startsWith(args[i], S.dd)
    THEN args[CHOOSE i \in 1..Len(args) :
                /\ ~startsWith(args[i], S.dd)
                /\ \A j \in 1..(i - 1) : startsWith(args[j], S.dd)]
    ELSE Undefined

\* the for loop of parseArgs from index i on; exit = 1 is process.exit(1)
RECURSIVE parseLoop(_, _, _)
parseLoop(args, i, o) ==
    IF i > Len(args) THEN [options |-> o, exit |-> NotExited]
    ELSE LET arg == args[i] IN
        IF arg = S.tailwind THEN parseLoop(args, i + 1, [o EXCEPT !.tailwind = TRUE])
        ELSE IF arg = S.i18n THEN parseLoop(args, i + 1, [o EXCEPT !.i18n = TRUE])
        ELSE IF arg = S.help \/ arg = S.h THEN parseLoop(args, i + 1, [o EXCEPT !.help = TRUE])
        ELSE IF arg = S.authPages THEN parseLoop(args, i + 1, [o EXCEPT !.authPages = TRUE])
        ELSE IF startsWith(arg, S.pmEq) THEN
            LET pm == splitEq1(arg) IN
            IF pm \in PackageManagers
            THEN parseLoop(args, i + 1, [o EXCEPT !.packageManager = pm])
            ELSE [options |-> o, exit |-> 1]
        ELSE IF ~startsWith(arg, S.dd) THEN parseLoop(args, i + 1, [o EXCEPT !.projectName = arg])
        ELSE parseLoop(args, i + 1, o)

parseArgs(args) ==
    IF \E i \in 1..Len(args) : startsWith(args[i], S.all) \/ startsWith(args[i], S.a)
    THEN [options |-> [DefaultOptions EXCEPT !.tailwind = TRUE, !.i18n = TRUE,
                                             !.projectName = findName(args),
                                             !.authPages = TRUE],
          exit |-> NotExited]
    ELSE parseLoop(args, 1, DefaultOptions)

----------------------------------------------------------------------------
(* File contents: a text file is a sequence of atoms (string literals cut   *)
(* so that every marker and anchor the scripts search for is a run of whole *)
(* atoms). includes and replace work on such runs.                          *)

NoFile == <<"<ENOENT>">>
Exists(f) == f # NoFile

\* String.prototype.includes
includes(content, pat) ==
    \E i \in 1..(Len(content) - Len(pat) + 1) :
        SubSeq(content, i, i + Len(pat) - 1) = pat

\* String.prototype.replace with a literal (or literal-only regex, no g flag)
\* pattern: the first occurrence is replaced, no occurrence leaves the text as is
replace(content, pat, rep) ==
    IF ~includes(content, pat) THEN content
    ELSE LET i == CHOOSE k \in 1..(Len(content) - Len(pat) + 1) :
                    /\ SubSeq(content, k, k + Len(pat) - 1) = pat
                    /\ \A j \in 1..(k - 1) : SubSeq(content, j, j + Len(pat) - 1) # pat
         IN SubSeq(content, 1, i - 1) \o rep \o SubSeq(content, i + Len(pat), Len(content))

\* atoms: the anchors and markers the scripts search for
A ==
    [semi |-> ";",
     nl |-> "\n",
     impDefine |-> "import { defineConfig } from 'vite'",
     twVite |-> "@tailwindcss/vite",
     exportDefine |-> "export default defineConfig({",
     plugins |-> "plugins: [",
     twCall |-> "tailwindcss()",
     cssSingle |-> "import './index.css'",
     cssDouble |-> "import \"./index.css\"",
     router |-> "<RouterProvider router={router} />",
     I18nextProvider |-> "I18nextProvider",
     i18n |-> "i18n",
     routeTree |-> "import { routeTree } from './routeTree.gen'",
     QueryClientProvider |-> "QueryClientProvider",
     impRouterDevtools |-> "import { TanStackRouterDevtools } from '@tanstack/router-devtools'",
     rqDevtoolsPkg |-> "@tanstack/react-query-devtools",
     rqDevtoolsTag |-> "<ReactQueryDevtools />",
     routerDevtoolsTag |-> "<TanStackRouterDevtools />"]

\* the texts the scripts insert
T ==
    [\* import tailwindcss from '@tailwindcss/vite';
     twImport |-> <<"import tailwindcss from '", A.twVite, "'", A.semi>>,
     \* plugins: [\n    tailwindcss(),
     twPlugin |-> <<A.plugins, "\n    ", A.twCall, ",">>,
     \* import { I18nextProvider } from 'react-i18next'
     providerImport |-> <<"import { ", A.I18nextProvider, " } from 'react-", A.i18n, "ext'">>,
     \* import i18n from './i18n'
     i18nImport |-> <<"import ", A.i18n, " from './", A.i18n, "'">>,
     \* import './i18n'
     i18nSideImport |-> <<"import './", A.i18n, "'">>,
     \* <I18nextProvider i18n={i18n}>\n  <RouterProvider router={router} />\n</I18nextProvider>
     i18nWrapper |-> <<"<", A.I18nextProvider, " ", A.i18n, "={", A.i18n, "}>", "\n  ", A.router, A.nl,
                       "</", A.I18nextProvider, ">">>,
     \* import { QueryClient, QueryClientProvider } from '@tanstack/react-query';
     queryImport |-> <<"import { QueryClient, ", A.QueryClientProvider,
                       " } from '@tanstack/react-query'", A.semi>>,
     \* const queryClient = new QueryClient();
     queryClient |-> <<"const queryClient = new QueryClient()", A.semi>>,
     \* <QueryClientProvider client={queryClient}>\n  <RouterProvider router={router} />\n</QueryClientProvider>
     queryWrapper |-> <<"<", A.QueryClientProvider, " client={queryClient}>", "\n  ", A.router, A.nl,
                        "</", A.QueryClientProvider, ">">>,
     \* import { ReactQueryDevtools } from '@tanstack/react-query-devtools';
     devtoolsImport |-> <<"import { ReactQueryDevtools } from '", A.rqDevtoolsPkg, "'", A.semi>>]

\* paths inside the project directory
File ==
    [vite |-> "vite.config.ts",
     css |-> "src/index.css",
     main |-> "src/main.tsx",
     root |-> "src/routes/__root.tsx",
     i18nTs |-> "src/i18n.ts",
     en |-> "locales/en/translation.json",
     tr |-> "locales/tr/translation.json",
     types |-> "src/@types/i18next.d.ts",
     typesFlags |-> "src/@types/i18n.d.ts",
     login |-> "src/routes/_layout_auth/login.tsx",
     register |-> "src/routes/_layout_auth/register.tsx",
     authLayout |-> "src/routes/_layout_auth.tsx",
     twConfig |-> "tailwind.config.js"]
Paths == {File[k] : k \in DOMAIN File}

----------------------------------------------------------------------------
(* Writing files. A run of writes is threaded through a record              *)
(*   [files, left, threw, enoent]: files is the project tree, left = k > 0  *)
(* means the k-th fs.writeFileSync from here throws (left = 0: none         *)
(* throws), threw says an exception is propagating, so the rest of the      *)
(* function is skipped, and enoent says the exception is ENOENT (a file to  *)
(* read or a directory to write into is missing) rather than a write that   *)
(* failed on an existing path.                                              *)

WriteRun(files, failAt) == [files |-> files, left |-> failAt, threw |-> FALSE, enoent |-> FALSE]

\* fs.writeFileSync(path, content)
writeFileSync(w, path, content) ==
    IF w.threw THEN w
    ELSE IF w.left = 1 THEN [w EXCEPT !.threw = TRUE]
    ELSE [files |-> [w.files EXCEPT ![path] = content],
          left |-> IF w.left = 0 THEN 0 ELSE w.left - 1,
          threw |-> FALSE, enoent |-> FALSE]

\* ENOENT: readFileSync of a missing file, writeFileSync into a missing
\* directory
throwIn(w) == [w EXCEPT !.threw = TRUE, !.enoent = TRUE]

\* the file bodies the scripts write, by script (P prompts, F flag-based,
\* I legacy inquirer)
Body ==
    [twCssP |-> <<"@import \"tailwindcss\";", A.nl>>,
     twCssF |-> <<"@import \"tailwindcss\";">>,
     twCssI |-> <<A.nl, "@tailwind base;", A.nl, "@tailwind components;", A.nl, "@tailwind utilities;">>,
     twConfigI |-> <<"module.exports = { content, theme, plugins }">>,
     enP |-> <<"JSON{welcome,description,language}(en)">>,
     trP |-> <<"JSON{welcome,description,language}(tr)">>,
     enF |-> <<A.nl, "{welcome,description,language}(en)">>,
     trF |-> <<A.nl, "{welcome,description,language}(tr)">>,
     enI |-> <<A.nl, "{welcome,description,language,}(en)">>,
     trI |-> <<A.nl, "{welcome,description,language,}(tr)">>,
     i18nConfigP |-> <<"i18n.ts: LanguageDetector, fallbackLng 'en', resources {translation}">>,
     i18nConfigF |-> <<A.nl, "i18n.ts: LanguageDetector, fallbackLng 'en', resources spread">>,
     i18nConfigI |-> <<A.nl, "i18n.ts: LanguageDetector, fallbackLng 'en', resources plain">>,
     typeDefsP |-> <<"declare module 'i18next' { defaultNS, resources }">>,
     typeDefsF |-> <<A.nl, "declare module \"i18next\" { defaultNS, resources, keySeparator, supportedLngs }">>,
     login |-> <<"createFileRoute('/_layout_auth/login')">>,
     register |-> <<"createFileRoute('/_layout_auth/register')">>,
     authLayoutP |-> <<"createFileRoute('/_layout_auth') React.Fragment Auth Layout Outlet">>,
     authLayoutF |-> <<"createFileRoute('/_layout_auth') Outlet">>]

\* variant of configureTailwindFiles that registers the plugin without first
\* looking for tailwindcss()
configureTailwindFiles_unguarded(files, failAt) ==
    LET w0 == WriteRun(files, failAt)
        v0 == files[File.vite]
        v1 == IF ~includes(v0, <<A.twVite>>)
              THEN replace(v0, <<A.impDefine>>, <<A.impDefine, A.semi, A.nl>> \o T.twImport)
              ELSE v0
        v2 == replace(v1, <<A.plugins>>, T.twPlugin)
        w1 == IF Exists(v0) THEN writeFileSync(w0, File.vite, v2) ELSE w0
    IN  IF Exists(files[File.css]) THEN writeFileSync(w1, File.css, Body.twCssP) ELSE w1

\* configureTailwind after its install step: vite.config.ts, then index.css
configureTailwindFiles(files, failAt) ==
    LET w0 == WriteRun(files, failAt)
        v0 == files[File.vite]
        v1 == IF ~includes(v0, <<A.twVite>>)
              THEN replace(v0, <<A.impDefine>>, <<A.impDefine, A.semi, A.nl>> \o T.twImport)
              ELSE v0
        v2 == IF ~includes(v1, <<A.twCall>>)
              THEN replace(v1, <<A.plugins>>, T.twPlugin)
              ELSE v1
        w1 == IF Exists(v0) THEN writeFileSync(w0, File.vite, v2) ELSE w0
    IN  IF Exists(files[File.css]) THEN writeFileSync(w1, File.css, Body.twCssP) ELSE w1

\* configureReactQuery after its install step: __root.tsx, then main.tsx
configureReactQueryFiles(files, failAt) ==
    LET w0 == WriteRun(files, failAt)
        r0 == files[File.root]
        r1 == IF ~includes(r0, <<A.rqDevtoolsPkg>>)
              THEN replace(r0, <<A.impRouterDevtools>>,
                           <<A.impRouterDevtools, A.semi, A.nl>> \o T.devtoolsImport)
              ELSE r0
        r2 == IF ~includes(r1, <<A.rqDevtoolsTag>>)
              THEN replace(r1, <<A.routerDevtoolsTag>>,
                           <<A.rqDevtoolsTag, "\n      ", A.routerDevtoolsTag>>)
              ELSE r1
        w1 == IF Exists(r0) THEN writeFileSync(w0, File.root, r2) ELSE w0
        m0 == files[File.main]
        m1 == replace(m0, <<A.routeTree>>,
                      <<A.routeTree, A.semi, A.nl>> \o T.queryImport \o <<A.nl>> \o T.queryClient)
        m2 == replace(m1, <<A.router>>, T.queryWrapper)
    IN  IF Exists(m0) /\ ~includes(m0, <<A.QueryClientProvider>>)
        THEN writeFileSync(w1, File.main, m2)
        ELSE w1

\* writeTranslationFile
writeTranslationFile(w, filePath, content) ==
    IF w.threw THEN w
    ELSE IF ~Exists(w.files[filePath]) THEN writeFileSync(w, filePath, content) ELSE w

\* variant of configureI18nFiles whose guard on main.tsx looks for any
\* provider wrapper around the router, not for I18nextProvider
configureI18nFiles_anyProvider(files, failAt) ==
    LET w0 == WriteRun(files, failAt)
        w1 == writeTranslationFile(w0, File.en, Body.enP)
        w2 == writeTranslationFile(w1, File.tr, Body.trP)
        w3 == IF ~Exists(files[File.i18nTs]) THEN writeFileSync(w2, File.i18nTs, Body.i18nConfigP) ELSE w2
        m0 == files[File.main]
        m1 == replace(m0, <<A.cssSingle>>,
                      <<A.cssSingle, A.semi, A.nl>> \o T.providerImport \o <<A.semi, A.nl>>
                          \o T.i18nImport \o <<A.semi>>)
        m2 == replace(m1, <<A.router>>, T.i18nWrapper)
        w4 == IF Exists(m0) /\ ~includes(m0, <<A.I18nextProvider>>)
                            /\ ~includes(m0, <<A.QueryClientProvider>>)
              THEN writeFileSync(w3, File.main, m2)
              ELSE w3
    IN  IF ~Exists(files[File.types]) THEN writeFileSync(w4, File.types, Body.typeDefsP) ELSE w4

\* configureI18n after its install step
configureI18nFiles(files, failAt) ==
    LET w0 == WriteRun(files, failAt)
        w1 == writeTranslationFile(w0, File.en, Body.enP)
        w2 == writeTranslationFile(w1, File.tr, Body.trP)
        w3 == IF ~Exists(files[File.i18nTs]) THEN writeFileSync(w2, File.i18nTs, Body.i18nConfigP) ELSE w2
        m0 == files[File.main]
        m1 == replace(m0, <<A.cssSingle>>,
                      <<A.cssSingle, A.semi, A.nl>> \o T.providerImport \o <<A.semi, A.nl>>
                          \o T.i18nImport \o <<A.semi>>)
        m2 == replace(m1, <<A.router>>, T.i18nWrapper)
        w4 == IF Exists(m0) /\ ~includes(m0, <<A.I18nextProvider>>)
              THEN writeFileSync(w3, File.main, m2)
              ELSE w3
    IN  IF ~Exists(files[File.types]) THEN writeFileSync(w4, File.types, Body.typeDefsP) ELSE w4

\* configureAuth
configureAuthFiles(files, failAt) ==
    LET w0 == WriteRun(files, failAt)
        w1 == writeFileSync(w0, File.login, Body.login)
        w2 == writeFileSync(w1, File.register, Body.register)
    IN  writeFileSync(w2, File.authLayout, Body.authLayoutP)

\* variant of F_tailwindFiles that appends the directive to index.css (as
\* fs.appendFileSync would) instead of overwriting the file
F_tailwindFiles_appends(files, failAt) ==
    LET w0 == WriteRun(files, failAt)
        c0 == IF Exists(files[File.css]) THEN files[File.css] ELSE <<>>
        w1 == writeFileSync(w0, File.css, c0 \o Body.twCssF)
        v0 == files[File.vite]
        v1 == replace(v0, <<A.exportDefine>>, T.twImport \o <<A.nl, A.nl, A.exportDefine>>)
        v2 == replace(v1, <<A.plugins>>, T.twPlugin)
    IN  IF Exists(v0) /\ ~includes(v0, <<A.twVite>>)
        THEN writeFileSync(w1, File.vite, v2)
        ELSE w1

\* flag-based variant, Tailwind set-up after its install step: index.css is
\* written unconditionally, then vite.config.ts is patched
F_tailwindFiles(files, failAt) ==
    LET w0 == WriteRun(files, failAt)
        w1 == writeFileSync(w0, File.css, Body.twCssF)
        v0 == files[File.vite]
        v1 == replace(v0, <<A.exportDefine>>, T.twImport \o <<A.nl, A.nl, A.exportDefine>>)
        v2 == replace(v1, <<A.plugins>>, T.twPlugin)
    IN  IF Exists(v0) /\ ~includes(v0, <<A.twVite>>)
        THEN writeFileSync(w1, File.vite, v2)
        ELSE w1

\* the patterns array of createI18nConfig, in order
I18nPatterns == << <<A.cssSingle>>, <<A.cssSingle, A.semi>>, <<A.cssDouble>>, <<A.cssDouble, A.semi>> >>

\* the for loop over patterns: the first pattern main.tsx includes is replaced
\* by the three import lines followed by the pattern itself
F_patchIndexCssImport(content) ==
    IF \E k \in 1..Len(I18nPatterns) : includes(content, I18nPatterns[k])
    THEN LET k == CHOOSE n \in 1..Len(I18nPatterns) :
                    /\ includes(content, I18nPatterns[n])
                    /\ \A j \in 1..(n - 1) : ~includes(content, I18nPatterns[j])
         IN [replaced |-> TRUE,
             content |-> replace(content, I18nPatterns[k],
                                 T.i18nSideImport \o <<A.nl>> \o T.i18nImport \o <<A.nl>>
                                     \o T.providerImport \o <<A.nl, A.nl>> \o I18nPatterns[k])]
    ELSE [replaced |-> FALSE, content |-> content]

\* flag-based variant, createI18nConfig
F_createI18nConfig(files, failAt) ==
    LET w0 == WriteRun(files, failAt)
        w1 == writeFileSync(w0, File.en, Body.enF)
        w2 == writeFileSync(w1, File.tr, Body.trF)
        w3 == writeFileSync(w2, File.i18nTs, Body.i18nConfigF)
        m0 == files[File.main]
        p == F_patchIndexCssImport(m0)
        w4 == IF w3.threw THEN w3
              ELSE IF ~Exists(m0) THEN throwIn(w3)
              ELSE IF ~includes(m0, <<A.i18n>>) /\ p.replaced
              THEN writeFileSync(w3, File.main, replace(p.content, <<A.router>>, T.i18nWrapper))
              ELSE w3
    IN  writeFileSync(w4, File.typesFlags, Body.typeDefsF)

\* flag-based variant, authentication pages
F_authFiles(files, failAt) ==
    LET w0 == WriteRun(files, failAt)
        w1 == writeFileSync(w0, File.login, Body.login)
        w2 == writeFileSync(w1, File.register, Body.register)
    IN  writeFileSync(w2, File.authLayout, Body.authLayoutF)

\* legacy inquirer variant, createI18nConfig: src/i18n.ts, then the two
\* translation files, whose directories the function does not create
I_createI18nConfig(files, localesDir, failAt) ==
    LET w0 == WriteRun(files, failAt)
        w1 == writeFileSync(w0, File.i18nTs, Body.i18nConfigI)
        w2 == IF w1.threw THEN w1
              ELSE IF ~localesDir THEN throwIn(w1)
              ELSE writeFileSync(w1, File.en, Body.enI)
    IN  writeFileSync(w2, File.tr, Body.trI)

\* legacy inquirer variant, Tailwind files after the install command
I_tailwindFiles(files, failAt) ==
    LET w0 == WriteRun(files, failAt)
        w1 == writeFileSync(w0, File.twConfig, Body.twConfigI)
    IN  writeFileSync(w1, File.css, Body.twCssI)

----------------------------------------------------------------------------
(* The template repository the clone brings in. Its content is not part of  *)
(* the scripts, so a clone delivers one of a few trees.                     *)

EmptyTree == [p \in Paths |-> NoFile]

TemplateName == <<"t","e","m","p","l","a","t","e">>
TemplateVersion == "0.0.0"
NewVersion == "1.0.0"

\* package.json as parsed: name, version, and everything else as one value
TemplateManifest == [state |-> "ok", name |-> TemplateName, version |-> TemplateVersion, rest |-> "scripts+deps"]
CorruptManifest == [state |-> "corrupt", name |-> <<>>, version |-> "", rest |-> ""]
NoManifest == [state |-> "none", name |-> <<>>, version |-> "", rest |-> ""]

\* single quotes, no semicolons: every anchor the scripts look for is there
StandardFiles ==
    [EmptyTree EXCEPT
        ![File.vite] = <<A.impDefine, A.nl, A.exportDefine, A.plugins, "react()]})">>,
        ![File.css] = <<"body{}">>,
        ![File.main] = <<A.cssSingle, A.nl, A.routeTree, A.nl, "render(", A.router, ")">>,
        ![File.root] = <<A.impRouterDevtools, A.nl, "<Outlet />", A.routerDevtoolsTag>>]

\* double quotes and semicolons: the single-quoted import anchors are absent
DoubleQuotedFiles ==
    [EmptyTree EXCEPT
        ![File.vite] = <<"import { defineConfig } from \"vite\"", A.semi, A.nl, A.exportDefine, A.plugins, "react()]})">>,
        ![File.css] = <<"body{}">>,
        ![File.main] = <<A.cssDouble, A.semi, A.nl, "import { routeTree } from \"./routeTree.gen\"", A.semi, A.nl,
                      "render(", A.router, ")">>,
        ![File.root] = <<"import { TanStackRouterDevtools } from \"@tanstack/router-devtools\"", A.semi, A.nl,
                      "<Outlet />", A.routerDevtoolsTag>>]

Templates ==
    { [manifest |-> TemplateManifest, files |-> StandardFiles, localesDir |-> FALSE],
      [manifest |-> TemplateManifest, files |-> StandardFiles, localesDir |-> TRUE],
      [manifest |-> TemplateManifest, files |-> DoubleQuotedFiles, localesDir |-> FALSE],
      [manifest |-> TemplateManifest, files |-> EmptyTree, localesDir |-> FALSE],
      [manifest |-> CorruptManifest, files |-> StandardFiles, localesDir |-> FALSE] }

----------------------------------------------------------------------------
(* State *)

\* effects: subprocesses started through runCommand, and calls that write or
\* delete files
E ==
    [clone |-> "git clone",
     install |-> "install",
     addTailwind |-> "add tailwind",
     addReactQuery |-> "add react-query",
     addI18n |-> "add i18n",
     gitInit |-> "git init",
     gitAdd |-> "git add",
     gitCommit |-> "git commit",
     gitInitAll |-> "git init && git add && git commit",
     writeManifest |-> "write package.json",
     rmCwdBin |-> "rm <cwd>/bin",
     rmBin |-> "rm <project>/bin",
     rmLock |-> "rm <project>/pnpm-lock.yaml",
     rmGit |-> "rm <project>/.git",
     tailwindFiles |-> "tailwind files",
     reactQueryFiles |-> "react-query files",
     i18nFiles |-> "i18n files",
     authFiles |-> "auth files"]

Subprocesses ==
    {E.clone, E.install, E.addTailwind, E.addReactQuery, E.addI18n,
     E.gitInit, E.gitAdd, E.gitCommit, E.gitInitAll}
FsCalls ==
    {E.writeManifest, E.rmCwdBin, E.rmBin, E.rmLock, E.rmGit,
     E.tailwindFiles, E.reactQueryFiles, E.i18nFiles, E.authFiles}

\* messages of log.error, log.warning and showHelp
M ==
    [help |-> "help",
     invalidPm |-> "error: Invalid package manager",
     missingName |-> "error: Please provide a project name",
     dirExists |-> "error: directory already exists",
     cloneFailed |-> "error: clone failed",
     manifestFailed |-> "error: Failed to update package.json",
     installFailed |-> "error: Dependency installation failed",
     featureInstallFailed |-> "error: feature install failed",
     setupFailed |-> "error: Setup failed",
     fatal |-> "error: Fatal error",
     writeFailed |-> "error.message of a failed fs.writeFileSync",
     enoent |-> "error.message ENOENT: no such file or directory",
     gitWarning |-> "warning: Git initialization failed",
     anchorMissing |-> "error: Could not find index.css import in main.tsx",
     viteMissing |-> "error: vite.config.ts not found, skipping Tailwind setup.",
     twAlready |-> "warning: Tailwind CSS is already included in vite.config.ts"]

\* argument texts tried on the flag-based variant
S_myApp == <<"m","y","-","a","p","p">>
S_badName == <<"B","a","d"," ","N","a","m","e","!">>
S_pmYarn == S.pmEq \o S.yarn
S_pmBogus == S.pmEq \o <<"n","p","x">>
Tokens ==
    {S_myApp, S_badName, S.all, S.a, S.tailwind, S.i18n, S.authPages,
     S.help, S.h, S_pmYarn, S_pmBogus}

ArgLists(n) == UNION {[1..k -> Tokens] : k \in 0..n}

\* texts tried at the project-name prompt
SampleNames ==
    {S_myApp, S_badName, <<>>, <<" ">>,
     <<" ","M","y","-","A","p","p"," ">>, <<" ","a","p","p">>}

Features == {"tailwind", "i18n", "auth", "reactQuery"}

\* the filesystem before the script runs: what is at <cwd>/<project name>
\* (nothing, an empty directory, a directory with content) and whether the
\* caller's directory has a bin folder
InitialFs ==
    {[target |-> t, cwdBin |-> b, manifest |-> NoManifest, bin |-> FALSE, lock |-> FALSE,
      git |-> "none", localesDir |-> FALSE, files |-> EmptyTree] :
        t \in {"absent", "empty", "other"}, b \in BOOLEAN}

\* the tree a successful clone leaves in the project directory
Cloned(fs, t) ==
    [fs EXCEPT !.target = "project", !.manifest = t.manifest, !.bin = TRUE, !.lock = TRUE,
               !.git = "template", !.localesDir = t.localesDir, !.files = t.files]

Init ==
    /\ variant \in {"prompts", "flags", "inquirer"}
    /\ pc = (CASE variant = "prompts" -> "promptName"
               [] variant = "flags" -> "parseArgs"
               [] variant = "inquirer" -> "argCheck")
    /\ argv \in (CASE variant = "prompts" -> {<<>>}
                   [] variant = "flags" -> ArgLists(MaxArgs)
                   [] variant = "inquirer" -> {<<>>, <<S_myApp>>, <<S_badName>>})
    /\ typed = <<>>
    /\ options = DefaultOptions
    /\ fsys \in InitialFs
    /\ fs0 = fsys
    /\ exitCode = NotExited
    /\ log = <<>>
    /\ printed = {}
    /\ fin = <<>>
    /\ fout = ""

\* process.exit(code) after printing msg
Exit(code, msg) ==
    /\ pc' = "exited"
    /\ exitCode' = code
    /\ printed' = printed \cup msg

\* error.message of the exception a run of writes ended with, as the catch
\* that prints it shows it
Cause(w) == IF w.enoent THEN {M.enoent} ELSE {M.writeFailed}

Goto(l) ==
    /\ pc' = l
    /\ UNCHANGED <<exitCode, printed>>

Fixed == <<variant, argv, fs0, fin, fout>>

----------------------------------------------------------------------------
(* The prompts variant: main() of src/bin/cli.js, lines 611-716.  Every     *)
(* throw inside main lands in its catch: log.error, process.exit(1).        *)

\* input({ validate: validateProjectName, ... }): a rejected text leaves the
\* prompt open; the answer is the text that passed validate (the input prompt
\* of @inquirer/prompts has validate and transformer, no filter step)
P_PromptName ==
    /\ variant = "prompts" /\ pc = "promptName"
    /\ \E t \in SampleNames :
        /\ typed' = t
        /\ IF validateProjectName(t) = Valid.ok
           THEN /\ options' = [options EXCEPT !.projectName = t]
                /\ Goto("promptOptions")
           ELSE /\ printed' = printed \cup {validateProjectName(t)}
                /\ UNCHANGED <<pc, exitCode, options>>
    /\ UNCHANGED <<fsys, log, Fixed>>

\* select, checkbox and confirm
P_PromptOptions ==
    /\ variant = "prompts" /\ pc = "promptOptions"
    /\ \E pm \in PackageManagers, sel \in SUBSET Features, git \in BOOLEAN :
        options' = [options EXCEPT !.packageManager = pm,
                                   !.tailwind = "tailwind" \in sel,
                                   !.i18n = "i18n" \in sel,
                                   !.authPages = "auth" \in sel,
                                   !.reactQuery = "reactQuery" \in sel,
                                   !.initializeGit = git]
    /\ Goto("checkDir")
    /\ UNCHANGED <<typed, fsys, log, Fixed>>

\* if (fs.existsSync(projectName)) throw
P_CheckDir ==
    /\ variant = "prompts" /\ pc = "checkDir"
    /\ IF fsys.target # "absent"
       THEN Exit(1, {M.setupFailed, M.dirExists})
       ELSE Goto("clone")
    /\ UNCHANGED <<typed, options, fsys, log, Fixed>>

\* runCommand(`git clone ...`), throw when it fails
P_Clone ==
    /\ variant = "prompts" /\ pc = "clone"
    /\ log' = Append(log, E.clone)
    /\ \/ /\ \E t \in Templates : fsys' = Cloned(fsys, t)
          /\ Goto("updatePackageJson")
       \/ /\ Exit(1, {M.setupFailed, M.cloneFailed})
          /\ UNCHANGED fsys
    /\ UNCHANGED <<typed, options, Fixed>>

\* read, JSON.parse, set name and version, write
P_UpdatePackageJson ==
    /\ variant = "prompts" /\ pc = "updatePackageJson"
    /\ IF fsys.manifest.state # "ok"
       THEN /\ Exit(1, {M.setupFailed})
            /\ UNCHANGED <<fsys, log>>
       ELSE /\ log' = Append(log, E.writeManifest)
            /\ \/ /\ fsys' = [fsys EXCEPT !.manifest.name = options.projectName,
                                          !.manifest.version = NewVersion]
                  /\ Goto("install")
               \/ /\ Exit(1, {M.setupFailed})
                  /\ UNCHANGED fsys
    /\ UNCHANGED <<typed, options, Fixed>>

\* variant of P_Install that reports a failed install and carries on
P_Install_carriesOn ==
    /\ variant = "prompts" /\ pc = "install"
    /\ log' = Append(log, E.install)
    /\ \/ Goto("tailwind")
       \/ /\ pc' = "tailwind"
          /\ printed' = printed \cup {M.installFailed}
          /\ UNCHANGED exitCode
    /\ UNCHANGED <<typed, options, fsys, Fixed>>

\* runCommand(`${packageManager} install`, projectPath), throw when it fails
P_Install ==
    /\ variant = "prompts" /\ pc = "install"
    /\ log' = Append(log, E.install)
    /\ \/ Goto("tailwind")
       \/ Exit(1, {M.setupFailed, M.installFailed})
    /\ UNCHANGED <<typed, options, fsys, Fixed>>

\* if (options.includes("tailwind")) configureTailwind(...): a failed install
\* or a throwing write lands in configureTailwind's catch, process.exit(1)
P_Tailwind ==
    /\ variant = "prompts" /\ pc = "tailwind"
    /\ IF ~options.tailwind
       THEN /\ Goto("reactQuery")
            /\ UNCHANGED <<fsys, log>>
       ELSE \/ /\ log' = Append(log, E.addTailwind)
               /\ Exit(1, {M.featureInstallFailed})
               /\ UNCHANGED fsys
            \/ \E failAt \in 0..2 :
                 LET w == configureTailwindFiles(fsys.files, failAt) IN
                 /\ log' = log \o <<E.addTailwind, E.tailwindFiles>>
                 /\ fsys' = [fsys EXCEPT !.files = w.files]
                 /\ IF w.threw THEN Exit(1, {M.setupFailed} \cup Cause(w)) ELSE Goto("reactQuery")
    /\ UNCHANGED <<typed, options, Fixed>>

\* if (options.includes("reactQuery")) configureReactQuery(...): its throws
\* land in main's catch
P_ReactQuery ==
    /\ variant = "prompts" /\ pc = "reactQuery"
    /\ IF ~options.reactQuery
       THEN /\ Goto("i18n")
            /\ UNCHANGED <<fsys, log>>
       ELSE \/ /\ log' = Append(log, E.addReactQuery)
               /\ Exit(1, {M.setupFailed, M.featureInstallFailed})
               /\ UNCHANGED fsys
            \/ \E failAt \in 0..2 :
                 LET w == configureReactQueryFiles(fsys.files, failAt) IN
                 /\ log' = log \o <<E.addReactQuery, E.reactQueryFiles>>
                 /\ fsys' = [fsys EXCEPT !.files = w.files]
                 /\ IF w.threw THEN Exit(1, {M.setupFailed} \cup Cause(w)) ELSE Goto("i18n")
    /\ UNCHANGED <<typed, options, Fixed>>

\* variant of P_I18n that calls configureTailwind once more after
\* configureI18n
P_I18n_thenTailwind ==
    /\ variant = "prompts" /\ pc = "i18n"
    /\ IF ~options.i18n
       THEN /\ Goto("auth")
            /\ UNCHANGED <<fsys, log>>
       ELSE \/ /\ log' = Append(log, E.addI18n)
               /\ Exit(1, {M.featureInstallFailed})
               /\ UNCHANGED fsys
            \/ \E failAt \in 0..5 :
                 LET w == configureI18nFiles(fsys.files, failAt)
                     t == configureTailwindFiles(w.files, 0)
                 IN
                 /\ IF w.threw
                    THEN /\ log' = log \o <<E.addI18n, E.i18nFiles>>
                         /\ fsys' = [fsys EXCEPT !.files = w.files, !.localesDir = TRUE]
                         /\ Exit(1, {M.setupFailed} \cup Cause(w))
                    ELSE /\ log' = log \o (IF options.tailwind
                                           THEN <<E.addI18n, E.i18nFiles, E.addTailwind, E.tailwindFiles>>
                                           ELSE <<E.addI18n, E.i18nFiles>>)
                         /\ fsys' = [fsys EXCEPT !.files = IF options.tailwind THEN t.files ELSE w.files,
                                                 !.localesDir = TRUE]
                         /\ Goto("auth")
    /\ UNCHANGED <<typed, options, Fixed>>

\* variant of P_I18n that removes the project directory when the install of
\* the i18n packages fails
P_I18n_cleansUp ==
    /\ variant = "prompts" /\ pc = "i18n"
    /\ IF ~options.i18n
       THEN /\ Goto("auth")
            /\ UNCHANGED <<fsys, log>>
       ELSE \/ /\ log' = Append(log, E.addI18n)
               /\ Exit(1, {M.featureInstallFailed})
               /\ fsys' = [fs0 EXCEPT !.cwdBin = fsys.cwdBin]
            \/ \E failAt \in 0..5 :
                 LET w == configureI18nFiles(fsys.files, failAt) IN
                 /\ log' = log \o <<E.addI18n, E.i18nFiles>>
                 /\ fsys' = [fsys EXCEPT !.files = w.files, !.localesDir = TRUE]
                 /\ IF w.threw THEN Exit(1, {M.setupFailed} \cup Cause(w)) ELSE Goto("auth")
    /\ UNCHANGED <<typed, options, Fixed>>

\* if (options.includes("i18n")) configureI18n(...): process.exit(1) on a
\* failed install and in its catch
P_I18n ==
    /\ variant = "prompts" /\ pc = "i18n"
    /\ IF ~options.i18n
       THEN /\ Goto("auth")
            /\ UNCHANGED <<fsys, log>>
       ELSE \/ /\ log' = Append(log, E.addI18n)
               /\ Exit(1, {M.featureInstallFailed})
               /\ UNCHANGED fsys
            \/ \E failAt \in 0..5 :
                 LET w == configureI18nFiles(fsys.files, failAt) IN
                 /\ log' = log \o <<E.addI18n, E.i18nFiles>>
                 /\ fsys' = [fsys EXCEPT !.files = w.files, !.localesDir = TRUE]
                 /\ IF w.threw THEN Exit(1, {M.setupFailed} \cup Cause(w)) ELSE Goto("auth")
    /\ UNCHANGED <<typed, options, Fixed>>

\* variant of P_Auth that reports a failed write and carries on
P_Auth_warns ==
    /\ variant = "prompts" /\ pc = "auth"
    /\ IF ~options.authPages
       THEN /\ Goto("rmBin")
            /\ UNCHANGED <<fsys, log>>
       ELSE \E failAt \in 0..3 :
                 LET w == configureAuthFiles(fsys.files, failAt) IN
                 /\ log' = Append(log, E.authFiles)
                 /\ fsys' = [fsys EXCEPT !.files = w.files]
                 /\ pc' = "rmBin"
                 /\ printed' = IF w.threw THEN printed \cup Cause(w) ELSE printed
                 /\ UNCHANGED exitCode
    /\ UNCHANGED <<typed, options, Fixed>>

\* if (options.includes("auth")) configureAuth(projectPath)
P_Auth ==
    /\ variant = "prompts" /\ pc = "auth"
    /\ IF ~options.authPages
       THEN /\ Goto("rmBin")
            /\ UNCHANGED <<fsys, log>>
       ELSE \E failAt \in 0..3 :
                 LET w == configureAuthFiles(fsys.files, failAt) IN
                 /\ log' = Append(log, E.authFiles)
                 /\ fsys' = [fsys EXCEPT !.files = w.files]
                 /\ IF w.threw THEN Exit(1, {M.setupFailed} \cup Cause(w)) ELSE Goto("rmBin")
    /\ UNCHANGED <<typed, options, Fixed>>

\* fs.rmSync(path.join(projectPath, "bin"), { recursive: true, force: true })
P_RmBin ==
    /\ variant = "prompts" /\ pc = "rmBin"
    /\ log' = Append(log, E.rmBin)
    /\ fsys' = [fsys EXCEPT !.bin = FALSE]
    /\ Goto("rmGit")
    /\ UNCHANGED <<typed, options, Fixed>>

\* fs.rmSync(path.join(projectPath, ".git"), { recursive: true, force: true })
P_RmGit ==
    /\ variant = "prompts" /\ pc = "rmGit"
    /\ log' = Append(log, E.rmGit)
    /\ fsys' = [fsys EXCEPT !.git = "none"]
    /\ Goto("initGit")
    /\ UNCHANGED <<typed, options, Fixed>>

\* the three commands of initializeGitRepository, in order
GitCommands == <<E.gitInit, E.gitAdd, E.gitCommit>>

\* what .git is after the first k commands succeeded
GitAfter(k) ==
    CASE k = 0 -> "none" [] k = 1 -> "initialized" [] k = 2 -> "staged" [] k = 3 -> "committed"

\* variant of initializeGitRepository that goes through all three commands
\* whether or not one of them fails
initializeGitRepository_runsAll(k) ==
    /\ log' = log \o GitCommands
    /\ fsys' = [fsys EXCEPT !.git = GitAfter(k)]
    /\ printed' = IF k < 3 THEN printed \cup {M.gitWarning} ELSE printed

\* initializeGitRepository: the first k commands succeed; the next one, if
\* any, fails, which stops the forEach and is caught as a warning
initializeGitRepository(k) ==
    /\ log' = log \o SubSeq(GitCommands, 1, IF k < 3 THEN k + 1 ELSE 3)
    /\ fsys' = [fsys EXCEPT !.git = GitAfter(k)]
    /\ printed' = IF k < 3 THEN printed \cup {M.gitWarning} ELSE printed

\* if (initializeGit) initializeGitRepository(projectPath)
P_InitGit ==
    /\ variant = "prompts" /\ pc = "initGit"
    /\ IF options.initializeGit
       THEN \E k \in 0..3 : initializeGitRepository(k)
       ELSE UNCHANGED <<fsys, log, printed>>
    /\ pc' = "finish"
    /\ UNCHANGED <<typed, options, exitCode, Fixed>>

\* the completion message; main returns and the process ends with status 0
P_Finish ==
    /\ variant = "prompts" /\ pc = "finish"
    /\ pc' = "done"
    /\ exitCode' = 0
    /\ UNCHANGED <<typed, options, fsys, log, printed, Fixed>>

----------------------------------------------------------------------------
(* The flag-based variant: main() of src/unnamed/part_002, lines 251-461.   *)
(* main has no try: an exception rejects main() and lands in                *)
(* main().catch, log.error and process.exit(1).                             *)

\* const options = parseArgs(), which may itself call process.exit(1)
F_ParseArgs ==
    /\ variant = "flags" /\ pc = "parseArgs"
    /\ LET r == parseArgs(argv) IN
        IF r.exit # NotExited
        THEN /\ Exit(r.exit, {M.invalidPm})
             /\ UNCHANGED options
        ELSE /\ options' = r.options
             /\ Goto("parsed")
    /\ UNCHANGED <<typed, fsys, log, Fixed>>

\* showHelp ends with process.exit(0)
showHelp == Exit(0, {M.help})

\* if (options.help) { showHelp(); return; }
F_Help ==
    /\ variant = "flags" /\ pc = "parsed"
    /\ options.help
    /\ showHelp
    /\ UNCHANGED <<typed, options, fsys, log, Fixed>>

\* if (!options.projectName) { log.error(...); showHelp(); process.exit(1); }
\* showHelp exits the process, so the process.exit(1) after it is never reached
F_MissingName ==
    /\ variant = "flags" /\ pc = "parsed"
    /\ ~options.help
    /\ ~Truthy(options.projectName)
    /\ Exit(0, {M.missingName, M.help})
    /\ UNCHANGED <<typed, options, fsys, log, Fixed>>

\* if (fs.existsSync(projectPath)) process.exit(1)
F_CheckDir ==
    /\ variant = "flags" /\ pc = "parsed"
    /\ ~options.help
    /\ Truthy(options.projectName)
    /\ IF fsys.target # "absent"
       THEN Exit(1, {M.dirExists})
       ELSE Goto("clone")
    /\ UNCHANGED <<typed, options, fsys, log, Fixed>>

\* const checkedOut = runCommand(gitCheckoutCommand); if (!checkedOut) process.exit(1)
F_Clone ==
    /\ variant = "flags" /\ pc = "clone"
    /\ log' = Append(log, E.clone)
    /\ \/ /\ \E t \in Templates : fsys' = Cloned(fsys, t)
          /\ Goto("updatePackageJson")
       \/ /\ Exit(1, {M.cloneFailed})
          /\ UNCHANGED fsys
    /\ UNCHANGED <<typed, options, Fixed>>

\* variant of F_UpdatePackageJson that sets the name and leaves the version
F_UpdatePackageJson_keepsVersion ==
    /\ variant = "flags" /\ pc = "updatePackageJson"
    /\ IF fsys.manifest.state # "ok"
       THEN /\ Exit(1, {M.manifestFailed})
            /\ UNCHANGED <<fsys, log>>
       ELSE /\ log' = Append(log, E.writeManifest)
            /\ \/ /\ fsys' = [fsys EXCEPT !.manifest.name = options.projectName]
                  /\ Goto("deleteBin")
               \/ /\ Exit(1, {M.manifestFailed})
                  /\ UNCHANGED fsys
    /\ UNCHANGED <<typed, options, Fixed>>

\* try { parse, set name and version, write } catch { process.exit(1) }
F_UpdatePackageJson ==
    /\ variant = "flags" /\ pc = "updatePackageJson"
    /\ IF fsys.manifest.state # "ok"
       THEN /\ Exit(1, {M.manifestFailed})
            /\ UNCHANGED <<fsys, log>>
       ELSE /\ log' = Append(log, E.writeManifest)
            /\ \/ /\ fsys' = [fsys EXCEPT !.manifest.name = options.projectName,
                                          !.manifest.version = NewVersion]
                  /\ Goto("deleteBin")
               \/ /\ Exit(1, {M.manifestFailed})
                  /\ UNCHANGED fsys
    /\ UNCHANGED <<typed, options, Fixed>>

\* const binPath = path.join(process.cwd(), "bin");
\* if (fs.existsSync(binPath)) fs.rmSync(binPath, ...)
F_DeleteBin ==
    /\ variant = "flags" /\ pc = "deleteBin"
    /\ IF fsys.cwdBin
       THEN /\ log' = Append(log, E.rmCwdBin)
            /\ fsys' = [fsys EXCEPT !.cwdBin = FALSE]
       ELSE UNCHANGED <<fsys, log>>
    /\ Goto("install")
    /\ UNCHANGED <<typed, options, Fixed>>

\* const installedDeps = runCommand(installDepsCommand); if (!installedDeps) process.exit(1)
F_Install ==
    /\ variant = "flags" /\ pc = "install"
    /\ log' = Append(log, E.install)
    /\ \/ Goto("tailwind")
       \/ Exit(1, {M.installFailed})
    /\ UNCHANGED <<typed, options, fsys, Fixed>>

\* messages of the vite.config.ts branch of the Tailwind set-up
F_tailwindMessages(files) ==
    IF ~Exists(files[File.vite]) THEN {M.viteMissing}
    ELSE IF includes(files[File.vite], <<A.twVite>>) THEN {M.twAlready}
    ELSE {}

\* if (options.tailwind) { install, index.css, vite.config.ts }
F_Tailwind ==
    /\ variant = "flags" /\ pc = "tailwind"
    /\ IF ~options.tailwind
       THEN /\ Goto("i18n")
            /\ UNCHANGED <<fsys, log>>
       ELSE \/ /\ log' = Append(log, E.addTailwind)
               /\ Exit(1, {M.featureInstallFailed})
               /\ UNCHANGED fsys
            \/ \E failAt \in 0..2 :
                 LET w == F_tailwindFiles(fsys.files, failAt) IN
                 /\ log' = log \o <<E.addTailwind, E.tailwindFiles>>
                 /\ fsys' = [fsys EXCEPT !.files = w.files]
                 /\ IF w.threw
                    THEN Exit(1, {M.fatal} \cup Cause(w))
                    ELSE /\ pc' = "i18n"
                         /\ printed' = printed \cup F_tailwindMessages(fsys.files)
                         /\ UNCHANGED exitCode
    /\ UNCHANGED <<typed, options, Fixed>>

\* message of createI18nConfig when no index.css import is found
F_i18nMessages(files) ==
    IF Exists(files[File.main]) /\ ~includes(files[File.main], <<A.i18n>>)
        /\ ~F_patchIndexCssImport(files[File.main]).replaced
    THEN {M.anchorMissing}
    ELSE {}

\* if (options.i18n) { install, createI18nConfig(projectPath) }
F_I18n ==
    /\ variant = "flags" /\ pc = "i18n"
    /\ IF ~options.i18n
       THEN /\ Goto("auth")
            /\ UNCHANGED <<fsys, log>>
       ELSE \/ /\ log' = Append(log, E.addI18n)
               /\ Exit(1, {M.featureInstallFailed})
               /\ UNCHANGED fsys
            \/ \E failAt \in 0..5 :
                 LET w == F_createI18nConfig(fsys.files, failAt) IN
                 /\ log' = log \o <<E.addI18n, E.i18nFiles>>
                 /\ fsys' = [fsys EXCEPT !.files = w.files, !.localesDir = TRUE]
                 /\ IF w.threw
                    THEN Exit(1, {M.fatal} \cup Cause(w))
                    ELSE /\ pc' = "auth"
                         /\ printed' = printed \cup F_i18nMessages(fsys.files)
                         /\ UNCHANGED exitCode
    /\ UNCHANGED <<typed, options, Fixed>>

\* if (options.authPages) { mkdir, login.tsx, register.tsx, _layout_auth.tsx }
F_Auth ==
    /\ variant = "flags" /\ pc = "auth"
    /\ IF ~options.authPages
       THEN /\ Goto("rmGit")
            /\ UNCHANGED <<fsys, log>>
       ELSE \E failAt \in 0..3 :
                 LET w == F_authFiles(fsys.files, failAt) IN
                 /\ log' = Append(log, E.authFiles)
                 /\ fsys' = [fsys EXCEPT !.files = w.files]
                 /\ IF w.threw THEN Exit(1, {M.fatal} \cup Cause(w)) ELSE Goto("rmGit")
    /\ UNCHANGED <<typed, options, Fixed>>

\* fs.rmSync(path.join(projectPath, ".git"), { recursive: true, force: true })
F_RmGit ==
    /\ variant = "flags" /\ pc = "rmGit"
    /\ log' = Append(log, E.rmGit)
    /\ fsys' = [fsys EXCEPT !.git = "none"]
    /\ Goto("gitInit")
    /\ UNCHANGED <<typed, options, Fixed>>

\* runCommand(`cd ... && git init && git add . && git commit ...`): one
\* shell command, of which the first k parts succeed; failure is a warning
gitInitCommand(k) ==
    /\ log' = Append(log, E.gitInitAll)
    /\ fsys' = [fsys EXCEPT !.git = GitAfter(k)]
    /\ printed' = IF k < 3 THEN printed \cup {M.gitWarning} ELSE printed

F_GitInit ==
    /\ variant = "flags" /\ pc = "gitInit"
    /\ \E k \in 0..3 : gitInitCommand(k)
    /\ pc' = "finish"
    /\ UNCHANGED <<typed, options, exitCode, Fixed>>

\* the closing messages; main returns and the process ends with status 0
F_Finish ==
    /\ variant = "flags" /\ pc = "finish"
    /\ pc' = "done"
    /\ exitCode' = 0
    /\ UNCHANGED <<typed, options, fsys, log, printed, Fixed>>

----------------------------------------------------------------------------
(* The legacy inquirer variant: main() of src/bin/cli.js, lines 92-252.     *)
(* The whole body is inside try; its catch prints and calls process.exit(1).*)

\* const repoName = process.argv[2]; if (!repoName) process.exit(1)
I_ArgCheck ==
    /\ variant = "inquirer" /\ pc = "argCheck"
    /\ LET repoName == IF Len(argv) >= 1 THEN argv[1] ELSE Undefined IN
        IF ~Truthy(repoName)
        THEN /\ Exit(1, {M.missingName})
             /\ UNCHANGED options
        ELSE /\ options' = [options EXCEPT !.projectName = repoName]
             /\ Goto("prompt")
    /\ UNCHANGED <<typed, fsys, log, Fixed>>

\* inquirer.prompt: packageManager, multiLanguageSupport, styleChoice
I_Prompt ==
    /\ variant = "inquirer" /\ pc = "prompt"
    /\ \E pm \in PackageManagers, multiLanguageSupport \in BOOLEAN,
          styleChoice \in {"Pure CSS", "Tailwind CSS"} :
        options' = [options EXCEPT !.packageManager = pm,
                                   !.i18n = multiLanguageSupport,
                                   !.tailwind = (styleChoice = "Tailwind CSS")]
    /\ Goto("clone")
    /\ UNCHANGED <<typed, fsys, log, Fixed>>

\* runCommand(gitCheckoutCommand) with no look at the target directory: git
\* itself refuses a directory that has content
I_Clone ==
    /\ variant = "inquirer" /\ pc = "clone"
    /\ log' = Append(log, E.clone)
    /\ \/ /\ fsys.target \in {"absent", "empty"}
          /\ \E t \in Templates : fsys' = Cloned(fsys, t)
          /\ Goto("rmLock")
       \/ /\ Exit(1, {M.cloneFailed})
          /\ UNCHANGED fsys
    /\ UNCHANGED <<typed, options, Fixed>>

\* if (fs.existsSync(pnpmLockFolderPath)) fs.rmSync(...)
I_RmLock ==
    /\ variant = "inquirer" /\ pc = "rmLock"
    /\ IF fsys.lock
       THEN /\ log' = Append(log, E.rmLock)
            /\ fsys' = [fsys EXCEPT !.lock = FALSE]
       ELSE UNCHANGED <<fsys, log>>
    /\ Goto("install")
    /\ UNCHANGED <<typed, options, Fixed>>

\* runCommand(`cd ${repoName} && ${packageManager} install`)
I_Install ==
    /\ variant = "inquirer" /\ pc = "install"
    /\ log' = Append(log, E.install)
    /\ \/ Goto("rmGit")
       \/ Exit(1, {M.installFailed})
    /\ UNCHANGED <<typed, options, fsys, Fixed>>

\* if (fs.existsSync(gitFolderPath)) fs.rmSync(...)
I_RmGit ==
    /\ variant = "inquirer" /\ pc = "rmGit"
    /\ IF fsys.git # "none"
       THEN /\ log' = Append(log, E.rmGit)
            /\ fsys' = [fsys EXCEPT !.git = "none"]
       ELSE UNCHANGED <<fsys, log>>
    /\ Goto("i18n")
    /\ UNCHANGED <<typed, options, Fixed>>

\* if (multiLanguageSupport) { install, createI18nConfig(repoName) }
I_I18n ==
    /\ variant = "inquirer" /\ pc = "i18n"
    /\ IF ~options.i18n
       THEN /\ Goto("tailwind")
            /\ UNCHANGED <<fsys, log>>
       ELSE \/ /\ log' = Append(log, E.addI18n)
               /\ Exit(1, {M.featureInstallFailed})
               /\ UNCHANGED fsys
            \/ \E failAt \in 0..3 :
                 LET w == I_createI18nConfig(fsys.files, fsys.localesDir, failAt) IN
                 /\ log' = log \o <<E.addI18n, E.i18nFiles>>
                 /\ fsys' = [fsys EXCEPT !.files = w.files]
                 /\ IF w.threw THEN Exit(1, {M.setupFailed} \cup Cause(w)) ELSE Goto("tailwind")
    /\ UNCHANGED <<typed, options, Fixed>>

\* if (styleChoice === "Tailwind CSS") { runCommand(...), tailwind.config.js,
\* index.css }: the result of runCommand is dropped, so when the install
\* command fails runCommand prints its error and the two files are written
\* all the same
I_Tailwind ==
    /\ variant = "inquirer" /\ pc = "tailwind"
    /\ IF ~options.tailwind
       THEN /\ Goto("gitInit")
            /\ UNCHANGED <<fsys, log>>
       ELSE \E failAt \in 0..2, installed \in BOOLEAN :
                 LET w == I_tailwindFiles(fsys.files, failAt)
                     msgs == IF installed THEN {} ELSE {M.featureInstallFailed}
                 IN
                 /\ log' = log \o <<E.addTailwind, E.tailwindFiles>>
                 /\ fsys' = [fsys EXCEPT !.files = w.files]
                 /\ IF w.threw
                    THEN Exit(1, msgs \cup {M.setupFailed} \cup Cause(w))
                    ELSE /\ pc' = "gitInit"
                         /\ printed' = printed \cup msgs
                         /\ UNCHANGED exitCode
    /\ UNCHANGED <<typed, options, Fixed>>

\* runCommand(gitInitCommand), a warning when it fails
I_GitInit ==
    /\ variant = "inquirer" /\ pc = "gitInit"
    /\ \E k \in 0..3 : gitInitCommand(k)
    /\ pc' = "finish"
    /\ UNCHANGED <<typed, options, exitCode, Fixed>>

\* the closing messages; main returns and the process ends with status 0
I_Finish ==
    /\ variant = "inquirer" /\ pc = "finish"
    /\ pc' = "done"
    /\ exitCode' = 0
    /\ UNCHANGED <<typed, options, fsys, log, printed, Fixed>>

----------------------------------------------------------------------------
(* Specification of the three scripts *)

Next ==
    \/ P_PromptName \/ P_PromptOptions \/ P_CheckDir \/ P_Clone
    \/ P_UpdatePackageJson \/ P_Install \/ P_Tailwind \/ P_ReactQuery
    \/ P_I18n \/ P_Auth \/ P_RmBin \/ P_RmGit \/ P_InitGit \/ P_Finish
    \/ F_ParseArgs \/ F_Help \/ F_MissingName \/ F_CheckDir \/ F_Clone
    \/ F_UpdatePackageJson \/ F_DeleteBin \/ F_Install \/ F_Tailwind
    \/ F_I18n \/ F_Auth \/ F_RmGit \/ F_GitInit \/ F_Finish
    \/ I_ArgCheck \/ I_Prompt \/ I_Clone \/ I_RmLock \/ I_Install \/ I_RmGit
    \/ I_I18n \/ I_Tailwind \/ I_GitInit \/ I_Finish

Spec == Init /\ [][Next]_vars

----------------------------------------------------------------------------
(* Specification of validateProjectName alone: every text up to MaxNameLen  *)
(* over one character of each class is validated once.                      *)

NameChars == {"a", "1", "-", "A", " ", "!"}

Texts(n) == UNION {[1..k -> NameChars] : k \in 0..n}

InitName ==
    /\ variant = "validate"
    /\ pc = "call"
    /\ fin \in Texts(MaxNameLen)
    /\ fout = ""
    /\ argv = <<>>
    /\ typed = <<>>
    /\ options = DefaultOptions
    /\ fsys = [target |-> "absent", cwdBin |-> FALSE, manifest |-> NoManifest, bin |-> FALSE,
               lock |-> FALSE, git |-> "none", localesDir |-> FALSE, files |-> EmptyTree]
    /\ fs0 = fsys
    /\ exitCode = NotExited
    /\ log = <<>>
    /\ printed = {}

ValidateName ==
    /\ variant = "validate" /\ pc = "call"
    /\ fout' = validateProjectName(fin)
    /\ pc' = "returned"
    /\ UNCHANGED <<variant, argv, typed, options, fsys, exitCode, log, printed, fs0, fin>>

NextName == ValidateName

SpecName == InitName /\ [][NextName]_vars

----------------------------------------------------------------------------
(* Specification of one feature composer alone: its install command is      *)
(* built for the chosen package manager, then its file edits are applied    *)
(* to a project tree twice in a row (no write fails). The target files      *)
(* start with every text of up to MaxAtoms atoms from the anchors and       *)
(* markers the composer looks for, or do not exist.                         *)

MaxAtoms == 2        \* longest starting content of a patched file, in atoms

\* the features each script can set up
ComposersOf(v) ==
    CASE v = "prompts" -> {"tailwind", "reactQuery", "i18n", "auth"}
      [] v = "flags" -> {"tailwind", "i18n", "auth"}
      [] v = "inquirer" -> {"i18n", "tailwind"}

\* ${packageManager} inside a template literal
Word(pm) ==
    CASE pm = S.npm -> "npm" [] pm = S.pnpm -> "pnpm" [] pm = S.yarn -> "yarn" [] pm = S.bun -> "bun"

\* packageManager === "npm" ? "npm install" : `${packageManager} add`
installOrAdd(pm) == IF pm = S.npm THEN <<"npm", "install">> ELSE <<Word(pm), "add">>

\* cd ${projectName} &&
CdProject == <<"cd", "${projectName}", "&&">>

I18nPackages == <<"i18next", "react-i18next", "i18next-http-backend", "i18next-browser-languagedetector">>

\* the install command of a feature, as the words the shell sees; auth has
\* no install step
installCommand(v, f, pm) ==
    CASE v = "prompts" /\ f = "tailwind" ->
            installOrAdd(pm) \o <<"tailwindcss", "@tailwindcss/vite">>
      [] v = "prompts" /\ f = "reactQuery" ->
            installOrAdd(pm) \o <<"@tanstack/react-query", "@tanstack/react-query-devtools">>
      [] v = "prompts" /\ f = "i18n" -> CdProject \o installOrAdd(pm) \o I18nPackages
      [] v = "flags" /\ f = "tailwind" ->
            CdProject \o <<Word(pm), "add", "-D", "tailwindcss", "@tailwindcss/vite">>
      [] v = "flags" /\ f = "i18n" -> CdProject \o installOrAdd(pm) \o I18nPackages
      [] v = "inquirer" /\ f = "i18n" -> CdProject \o installOrAdd(pm) \o I18nPackages
      [] v = "inquirer" /\ f = "tailwind" ->
            CdProject \o installOrAdd(pm)
                \o <<"-D", "tailwindcss", "postcss", "autoprefixer", "&&", "npx", "tailwindcss", "init", "-p">>
      [] OTHER -> <<>>

\* the file edits of a feature after its install step
applyComposer(v, f, fs, failAt) ==
    CASE v = "prompts" /\ f = "tailwind" -> configureTailwindFiles(fs.files, failAt)
      [] v = "prompts" /\ f = "reactQuery" -> configureReactQueryFiles(fs.files, failAt)
      [] v = "prompts" /\ f = "i18n" -> configureI18nFiles(fs.files, failAt)
      [] v = "prompts" /\ f = "auth" -> configureAuthFiles(fs.files, failAt)
      [] v = "flags" /\ f = "tailwind" -> F_tailwindFiles(fs.files, failAt)
      [] v = "flags" /\ f = "i18n" -> F_createI18nConfig(fs.files, failAt)
      [] v = "flags" /\ f = "auth" -> F_authFiles(fs.files, failAt)
      [] v = "inquirer" /\ f = "i18n" -> I_createI18nConfig(fs.files, fs.localesDir, failAt)
      [] v = "inquirer" /\ f = "tailwind" -> I_tailwindFiles(fs.files, failAt)

\* every text of up to n atoms over an alphabet, and the missing file
AtomTexts(alphabet, n) == UNION {[1..k -> alphabet] : k \in 0..n} \cup {NoFile}

OldBody == <<"old">>

\* the project trees a composer is tried on
StartTrees(f) ==
    CASE f = "tailwind" ->
            {[EmptyTree EXCEPT ![File.vite] = v, ![File.css] = c] :
                v \in AtomTexts({A.impDefine, A.twVite, A.exportDefine, A.plugins, A.twCall}, MaxAtoms),
                c \in {NoFile, OldBody}}
      [] f = "reactQuery" ->
            {[EmptyTree EXCEPT ![File.root] = r, ![File.main] = m] :
                r \in AtomTexts({A.impRouterDevtools, A.rqDevtoolsPkg, A.rqDevtoolsTag,
                                 A.routerDevtoolsTag}, MaxAtoms),
                m \in AtomTexts({A.routeTree, A.QueryClientProvider, A.router}, MaxAtoms)}
      [] f = "i18n" ->
            {[EmptyTree EXCEPT ![File.main] = m, ![File.i18nTs] = o, ![File.en] = o,
                               ![File.tr] = o, ![File.types] = o] :
                m \in AtomTexts({A.cssSingle, A.cssDouble, A.semi, A.I18nextProvider, A.i18n,
                                 A.router}, MaxAtoms),
                o \in {NoFile, OldBody}}
      [] f = "auth" ->
            {[EmptyTree EXCEPT ![File.login] = o, ![File.authLayout] = o] : o \in {NoFile, OldBody}}

\* the one feature selected in options
Selected(o) ==
    CHOOSE f \in Features :
        (CASE f = "tailwind" -> o.tailwind [] f = "i18n" -> o.i18n
           [] f = "auth" -> o.authPages [] f = "reactQuery" -> o.reactQuery)

InitComposer ==
    /\ variant \in {"prompts", "flags", "inquirer"}
    /\ pc = "installCommand"
    /\ \E f \in ComposersOf(variant), pm \in PackageManagers :
        /\ options = [DefaultOptions EXCEPT !.projectName = S_myApp, !.packageManager = pm,
                                            !.tailwind = (f = "tailwind"), !.i18n = (f = "i18n"),
                                            !.authPages = (f = "auth"),
                                            !.reactQuery = (f = "reactQuery")]
        /\ \E tree \in StartTrees(f), dir \in BOOLEAN :
            fsys = [target |-> "project", cwdBin |-> FALSE, manifest |-> TemplateManifest,
                    bin |-> TRUE, lock |-> TRUE, git |-> "template",
                    localesDir |-> (dir \/ variant # "inquirer" \/ f # "i18n"), files |-> tree]
    /\ fs0 = fsys
    /\ argv = <<>>
    /\ typed = <<>>
    /\ exitCode = NotExited
    /\ log = <<>>
    /\ printed = {}
    /\ fin = <<>>
    /\ fout = <<>>

\* the install command is built and run; it succeeds
RunInstallCommand ==
    /\ pc = "installCommand"
    /\ fout' = installCommand(variant, Selected(options), options.packageManager)
    /\ pc' = "composer"
    /\ UNCHANGED <<variant, argv, typed, options, fsys, exitCode, log, printed, fs0, fin>>

\* the file edits are applied, a first and then a second time; an exception
\* (a read of a missing file) ends the run as in the script
RunComposer ==
    /\ pc \in {"composer", "once"}
    /\ LET w == applyComposer(variant, Selected(options), fsys, 0) IN
        /\ fsys' = [fsys EXCEPT !.files = w.files]
        /\ IF w.threw
           THEN /\ pc' = "exited"
                /\ exitCode' = 1
           ELSE /\ pc' = (IF pc = "composer" THEN "once" ELSE "twice")
                /\ UNCHANGED exitCode
    /\ UNCHANGED <<variant, argv, typed, options, log, printed, fs0, fin, fout>>

NextComposer == RunInstallCommand \/ RunComposer

SpecComposer == InitComposer /\ [][NextComposer]_vars

----------------------------------------------------------------------------
(* The composers of the prompts script applied to one tree in any order,    *)
(* next to the order main() applies them in.                                *)

\* the file-edit effect of a composer
EditOf(f) ==
    CASE f = "tailwind" -> E.tailwindFiles [] f = "reactQuery" -> E.reactQueryFiles
      [] f = "i18n" -> E.i18nFiles [] f = "auth" -> E.authFiles

IsSelected(o, f) ==
    CASE f = "tailwind" -> o.tailwind [] f = "i18n" -> o.i18n
      [] f = "auth" -> o.authPages [] f = "reactQuery" -> o.reactQuery

\* one composer of the prompts script on a tree, when it is selected
composeIf(o, f, files) ==
    IF IsSelected(o, f) THEN applyComposer("prompts", f, [files |-> files], 0).files ELSE files

\* main(): tailwind, reactQuery, i18n, auth, each if selected
composeInSequence(o, files) ==
    composeIf(o, "auth", composeIf(o, "i18n", composeIf(o, "reactQuery", composeIf(o, "tailwind", files))))

\* the trees the composers are tried on: any entry file of up to MaxAtoms
\* anchors, with or without the other template files
OrderTrees ==
    {[EmptyTree EXCEPT ![File.main] = m, ![File.root] = r, ![File.vite] = v, ![File.css] = v] :
        m \in AtomTexts({A.cssSingle, A.routeTree, A.router}, MaxAtoms) \cup {StandardFiles[File.main]},
        r \in {NoFile, StandardFiles[File.root]},
        v \in {NoFile, <<A.plugins>>}}

InitOrder ==
    /\ variant = "prompts"
    /\ pc = "compose"
    /\ \E sel \in SUBSET Features :
        options = [DefaultOptions EXCEPT !.projectName = S_myApp,
                                         !.tailwind = "tailwind" \in sel, !.i18n = "i18n" \in sel,
                                         !.authPages = "auth" \in sel,
                                         !.reactQuery = "reactQuery" \in sel]
    /\ \E tree \in OrderTrees :
        fsys = [target |-> "project", cwdBin |-> FALSE, manifest |-> TemplateManifest,
                bin |-> TRUE, lock |-> TRUE, git |-> "template", localesDir |-> FALSE, files |-> tree]
    /\ fs0 = fsys
    /\ argv = <<>>
    /\ typed = <<>>
    /\ exitCode = NotExited
    /\ log = <<>>
    /\ printed = {}
    /\ fin = <<>>
    /\ fout = <<>>

\* a selected composer that has not run yet runs
ComposeNext ==
    /\ pc = "compose"
    /\ \E f \in Features :
        /\ IsSelected(options, f)
        /\ \A i \in 1..Len(log) : log[i] # EditOf(f)
        /\ fsys' = [fsys EXCEPT !.files = composeIf(options, f, fsys.files)]
        /\ log' = Append(log, EditOf(f))
    /\ UNCHANGED <<variant, pc, argv, typed, options, exitCode, printed, fs0, fin, fout>>

\* every selected composer has run
ComposeDone ==
    /\ pc = "compose"
    /\ \A f \in Features : IsSelected(options, f) => \E i \in 1..Len(log) : log[i] = EditOf(f)
    /\ pc' = "composed"
    /\ UNCHANGED <<variant, argv, typed, options, fsys, exitCode, log, printed, fs0, fin, fout>>

NextOrder == ComposeNext \/ ComposeDone

SpecOrder == InitOrder /\ [][NextOrder]_vars

----------------------------------------------------------------------------
(* Properties *)

Last(s) == s[Len(s)]

Occurrences(s, e) == Cardinality({i \in 1..Len(s) : s[i] = e})

\* the stage an effect belongs to: 2 Fetching, 3 Installing, 4 Composing,
\* 5 Finalizing (Resolving, 1, has no effect on files or processes)
StageRank(e) ==
    CASE e \in {E.clone, E.writeManifest} -> 2
      [] e = E.install -> 3
      [] e \in {E.addTailwind, E.addReactQuery, E.addI18n,
                E.tailwindFiles, E.reactQueryFiles, E.i18nFiles, E.authFiles} -> 4
      [] e \in {E.rmCwdBin, E.rmBin, E.rmLock, E.rmGit,
                E.gitInit, E.gitAdd, E.gitCommit, E.gitInitAll} -> 5

\* nothing has been started or touched yet
Untouched == log = <<>> /\ fsys = fs0

\* C1: in the prompts and the flag-based script the effects of a run occur in
\* stage order (Fetching, Installing, Composing, Finalizing): no effect of a
\* later stage, finalizer deletions included, precedes an effect of an earlier
\* stage, so no stage is entered a second time.
C1_StageOrder ==
    variant \in {"prompts", "flags"} =>
        \A i, j \in 1..Len(log) : i < j => StageRank(log[i]) <= StageRank(log[j])

\* C2 as stated: validateProjectName accepts a text exactly when the text
\* itself matches ^[a-z0-9-]+$.
C2_AcceptsIffMatches ==
    (variant = "validate" /\ pc = "returned") => (fout = Valid.ok <=> NamePattern(fin))

\* a text is a run of allowed characters between leading and trailing blanks
PaddedName(s) ==
    \E i, j \in 1..Len(s) :
        /\ i <= j
        /\ \A k \in 1..Len(s) :
            IF k < i \/ k > j THEN s[k] \in Whitespace
            ELSE s[k] \in LowerLetters \cup Digits \cup {"-"}

\* C2 amended: validateProjectName accepts a text exactly when the text
\* without its leading and trailing whitespace matches ^[a-z0-9-]+$; every
\* other text is rejected, with the "empty" message when only whitespace is
\* left and with the pattern message otherwise.
C2_AcceptsIffTrimmedMatches ==
    (variant = "validate" /\ pc = "returned") =>
        /\ fout = Valid.ok <=> PaddedName(fin)
        /\ fout = Valid.empty <=> (\A k \in 1..Len(fin) : fin[k] \in Whitespace)
        /\ fout \in {Valid.ok, Valid.empty, Valid.pattern}

\* C2 witness: a text with a leading blank has been accepted
C2_Witness ==
    /\ variant = "validate" /\ pc = "returned"
    /\ fout = Valid.ok
    /\ Len(fin) >= 2 /\ fin[1] \in Whitespace

\* C3: a text typed at the project-name prompt whose trimmed, lowercased form
\* matches ^[a-z0-9-]+$ is accepted, and the resolved project name is that
\* trimmed, lowercased form.
C3_TrimmedLowercasedAccepted ==
    (variant = "prompts" /\ NamePattern(toLowerCase(trim(typed)))) =>
        /\ pc # "promptName"
        /\ options.projectName = toLowerCase(trim(typed))

\* the name a run works with, once resolved
NameResolved ==
    \/ variant = "flags" /\ pc # "parseArgs" /\ ~(pc = "exited" /\ M.invalidPm \in printed)
    \/ variant = "inquirer" /\ pc # "argCheck"
    \/ variant = "prompts" /\ pc # "promptName"

\* non-empty and not a valid name even after trimming and lowercasing
InvalidName(n) == Truthy(n) /\ ~NamePattern(toLowerCase(trim(n)))

\* C4: with a non-empty project name that does not match ^[a-z0-9-]+$ (such as
\* 'Bad Name!') no subprocess is started and nothing on disk changes, the run
\* never completes, and when it ends its exit status is not 0.
C4_InvalidNameAborts ==
    (variant \in {"prompts", "flags"} /\ NameResolved /\ InvalidName(options.projectName)
        /\ ~options.help) =>
        /\ Untouched
        /\ pc # "done"
        /\ pc = "exited" => exitCode # 0

\* C5: when the target directory exists at the start of Fetching, no
\* subprocess is ever started, the filesystem stays as it was, the run never
\* completes, and it exits with status 1.
C5_ExistingDirAborts ==
    fs0.target # "absent" =>
        /\ Untouched
        /\ pc # "done"
        /\ (pc = "exited" /\ printed \cap {M.help, M.invalidPm, M.missingName} = {}) => exitCode = 1

FatalMessages == {M.missingName, M.invalidPm, M.dirExists, M.cloneFailed, M.installFailed}

\* C6: a run that reaches Done exits with 0, an exit without reaching Done
\* that is not the help request has a status other than 0, and after any of
\* the fatal errors (missing name, invalid package manager, existing
\* directory, clone failure, install failure) the exit status is 1.
C6_ExitCodes ==
    /\ pc = "done" => exitCode = 0
    /\ (pc = "exited" /\ printed \cap FatalMessages # {}) => exitCode = 1

\* the argument list with every --all / -a replaced by the three feature flags
RECURSIVE ExpandAll(_)
ExpandAll(args) ==
    IF args = <<>> THEN <<>>
    ELSE (IF Head(args) \in {S.all, S.a}
          THEN <<S.tailwind, S.i18n, S.authPages>>
          ELSE <<Head(args)>>) \o ExpandAll(Tail(args))

\* the argument list with its i-th argument given twice
Repeated(args, i) == SubSeq(args, 1, i) \o SubSeq(args, i, Len(args))

\* what parseArgs did in this run: the options it returned, or process.exit(1)
ParseOutcome ==
    IF pc = "exited" /\ M.invalidPm \in printed
    THEN [exit |-> 1, options |-> DefaultOptions]
    ELSE [exit |-> NotExited, options |-> options]

\* the same for a direct evaluation (options only count when it returned)
OutcomeOf(args) ==
    LET r == parseArgs(args) IN
    IF r.exit # NotExited THEN [exit |-> r.exit, options |-> DefaultOptions] ELSE r

\* C7: parseArgs resolves an argument list with --all / -a to the same options
\* (name, package manager, help flag, features) as the list with that token
\* replaced by --tailwind --i18n --auth-pages, and repeating a feature flag
\* changes nothing.
C7_AllIsSugar ==
    (variant = "flags" /\ pc # "parseArgs") =>
        /\ ParseOutcome = OutcomeOf(ExpandAll(argv))
        /\ \A i \in 1..Len(argv) :
            argv[i] \in {S.tailwind, S.i18n, S.authPages} =>
                ParseOutcome = OutcomeOf(Repeated(argv, i))

IsPmFlag(arg) == startsWith(arg, S.pmEq)

\* C8: without --pm the package manager is pnpm; with --pm=<mgr>, <mgr> one of
\* npm, pnpm, yarn, bun, it is <mgr>; with a --pm= value outside that set the
\* run exits with status 1 and nothing has been started or touched.
C8_PackageManager ==
    (variant = "flags" /\ pc # "parseArgs") =>
        /\ (\A i \in 1..Len(argv) : ~IsPmFlag(argv[i])) => options.packageManager = S.pnpm
        /\ \A i \in 1..Len(argv) :
            (IsPmFlag(argv[i]) /\ \A j \in 1..Len(argv) : IsPmFlag(argv[j]) => argv[j] = argv[i])
                => IF splitEq1(argv[i]) \in PackageManagers
                   THEN options.packageManager = splitEq1(argv[i])
                   ELSE pc = "exited" /\ exitCode = 1 /\ Untouched

HelpAsked == \E i \in 1..Len(argv) : argv[i] \in {S.help, S.h}

InvalidPmGiven ==
    \E i \in 1..Len(argv) : IsPmFlag(argv[i]) /\ splitEq1(argv[i]) \notin PackageManagers

\* C9: with --help or -h among the arguments the help text is shown and the
\* process exits with status 0, with no subprocess and no change on disk
\* (argument lists with an invalid --pm value, which C8 sends to exit status
\* 1, are left to C8).
C9_HelpExits ==
    (variant = "flags" /\ HelpAsked /\ ~InvalidPmGiven /\ pc # "parseArgs") =>
        /\ Untouched
        /\ pc \in {"parsed", "exited"}
        /\ pc = "exited" => (exitCode = 0 /\ M.help \in printed)

\* C10: after a failed clone or a failed base install the run has exited with
\* status 1 and the failed subprocess is the last effect of the run (no
\* manifest rewrite, install, composer, deletion or git command follows a
\* failed clone; nothing follows a failed install), and no subprocess command
\* is started twice in a run.
C10_FetchInstallFailureIsFatal ==
    /\ M.cloneFailed \in printed =>
        (pc = "exited" /\ exitCode = 1 /\ log = <<E.clone>> /\ fsys = fs0)
    /\ M.installFailed \in printed =>
        (pc = "exited" /\ exitCode = 1 /\ Last(log) = E.install)
    /\ \A e \in Subprocesses : Occurrences(log, e) <= 1

\* C10 witness: a run whose base install failed after a successful clone and
\* manifest rewrite
C10_Witness ==
    /\ M.installFailed \in printed
    /\ pc = "exited"
    /\ fsys.target = "project"
    /\ fsys.manifest.version = NewVersion

FeatureInstalls == {E.addTailwind, E.addReactQuery, E.addI18n}

\* C11: once the install subprocess of a selected feature (tailwind,
\* react-query, i18n) has failed, the run has exited with status 1 and that
\* install is the last effect of the run: none of the feature's file edits, no
\* later composer and no finalizer step follows it, and the run is never Done.
C11_FeatureInstallFailureIsFatal ==
    M.featureInstallFailed \in printed =>
        /\ pc = "exited" /\ exitCode = 1
        /\ Last(log) \in FeatureInstalls

TailwindAnchorMissing(v, files) ==
    LET vite == files[File.vite] IN
    \/ ~Exists(vite)
    \/ IF v = "prompts"
       THEN \/ ~includes(vite, <<A.twVite>>) /\ ~includes(vite, <<A.impDefine>>)
            \/ ~includes(vite, <<A.twCall>>) /\ ~includes(vite, <<A.plugins>>)
       ELSE /\ ~includes(vite, <<A.twVite>>)
            /\ ~includes(vite, <<A.exportDefine>>) \/ ~includes(vite, <<A.plugins>>)

\* a patch of the i18n set-up finds main.tsx or one of its anchors missing
I18nAnchorMissing(v, files) ==
    LET main == files[File.main] IN
    \/ ~Exists(main)
    \/ IF v = "prompts"
       THEN /\ ~includes(main, <<A.I18nextProvider>>)
            /\ ~includes(main, <<A.cssSingle>>) \/ ~includes(main, <<A.router>>)
       ELSE /\ ~includes(main, <<A.i18n>>)
            /\ ~F_patchIndexCssImport(main).replaced \/ ~includes(main, <<A.router>>)

\* the messages by which a composer reports a patch it could not make
PatchWarnings == {M.anchorMissing, M.viteMissing}

\* C13: in the prompts and the flag-based script, when the Tailwind or the
\* i18n set-up has installed its packages and finds a target file or an
\* anchor missing, the step reports the patch it could not make and does not
\* end the run (unless a write failed): the run moves on to the next
\* composer.
C13_MissingAnchorIsWarning ==
    [][(/\ variant \in {"prompts", "flags"}
        /\ Len(log') > Len(log)
        /\ \/ pc = "tailwind" /\ Last(log') = E.tailwindFiles
              /\ TailwindAnchorMissing(variant, fsys.files)
           \/ pc = "i18n" /\ Last(log') = E.i18nFiles
              /\ I18nAnchorMissing(variant, fsys.files))
       => (/\ printed' \cap PatchWarnings # {}
           /\ pc' = "exited" => M.writeFailed \in printed')]_vars

ComposerEdits == {E.tailwindFiles, E.reactQueryFiles, E.i18nFiles, E.authFiles}

\* C14 as stated: a write that fails inside a composer of the prompts script
\* is reported and does not end the run.
C14_WriteFailureIsWarning ==
    (variant = "prompts" /\ M.writeFailed \in printed) => pc # "exited"

\* C14 amended: a write that fails inside a composer is fatal: the error is
\* printed, the process has exited with status 1, and the composer whose
\* write failed is the last effect of the run, so no later composer and no
\* finalizer step runs and the run is never Done.
C14_WriteFailureIsFatal ==
    M.writeFailed \in printed =>
        /\ pc = "exited" /\ exitCode = 1
        /\ Last(log) \in ComposerEdits

\* C14 witness: the prompts script has ended on a failed write of
\* configureAuth, after login.tsx was written and before _layout_auth.tsx
C14_Witness ==
    /\ variant = "prompts" /\ pc = "exited"
    /\ M.writeFailed \in printed
    /\ Last(log) = E.authFiles
    /\ Exists(fsys.files[File.login])
    /\ ~Exists(fsys.files[File.authLayout])

\* the git commands of initializeGitRepository that were started, in order
GitStarted == SelectSeq(log, LAMBDA e : e \in {E.gitInit, E.gitAdd, E.gitCommit})

\* C15: once a git re-initialization command has failed, the failure has been
\* reported as a warning and nothing else: the run has not exited, it is at
\* its completion message or Done (with exit status 0), the failed command is
\* the last effect of the run, and the commands after it were not started
\* (init, add, commit run in this order up to the failed one; the repository
\* is in the state the commands before it left).
C15_GitFailureIsWarning ==
    M.gitWarning \in printed =>
        /\ pc \in {"finish", "done"}
        /\ pc = "finish" => (exitCode = NotExited /\ ENABLED (P_Finish \/ F_Finish \/ I_Finish))
        /\ pc = "done" => exitCode = 0
        /\ fsys.git # "committed"
        /\ IF variant = "prompts"
           THEN /\ Len(GitStarted) \in 1..3
                /\ GitStarted = SubSeq(GitCommands, 1, Len(GitStarted))
                /\ Last(log) = GitCommands[Len(GitStarted)]
                /\ fsys.git = GitAfter(Len(GitStarted) - 1)
           ELSE /\ Last(log) = E.gitInitAll
                /\ Occurrences(log, E.gitInitAll) = 1

\* C15 witness: the prompts script is Done with status 0 after git add
\* failed: init and add were started, commit was not
C15_Witness ==
    /\ variant = "prompts" /\ pc = "done" /\ exitCode = 0
    /\ M.gitWarning \in printed
    /\ GitStarted = <<E.gitInit, E.gitAdd>>
    /\ fsys.git = "initialized"

\* C16: when a run is Done, the project directory has no bin folder, no
\* pnpm-lock.yaml and no .git folder of the template clone.
C16_FinalizerDeletions ==
    pc = "done" =>
        /\ ~fsys.bin
        /\ ~fsys.lock
        /\ fsys.git # "template"

GitEffects == {E.gitInit, E.gitAdd, E.gitCommit, E.gitInitAll}

\* C17: in the prompts and the flag-based script git commands run only when
\* re-initialization was requested (initializeGit), and then they do run: a
\* run at its completion has started init; the git commands come after the
\* deletion of the inherited .git folder and after every composer effect, in
\* the order init, add, commit; and when none of them failed the repository
\* holds the one commit.
C17_GitIffRequested ==
    variant \in {"prompts", "flags"} =>
        /\ (\E i \in 1..Len(log) : log[i] \in GitEffects) => options.initializeGit
        /\ (pc \in {"finish", "done"} /\ options.initializeGit) =>
                (\E i \in 1..Len(log) : log[i] \in GitEffects)
        /\ \A i, j \in 1..Len(log) :
                (log[i] \in GitEffects /\ log[j] \in ComposerEdits \cup FeatureInstalls \cup {E.rmGit})
                    => j < i
        /\ GitStarted = SubSeq(GitCommands, 1, Len(GitStarted))
        /\ (pc \in {"finish", "done"} /\ options.initializeGit /\ M.gitWarning \notin printed)
                => fsys.git = "committed"

\* the step C18 is about: the manifest rewrite and the start of the base install
ManifestStep ==
    variant \in {"prompts", "flags"} =>
        /\ pc = "updatePackageJson" =>
            IF pc' = "exited"
            THEN exitCode' = 1 /\ fsys' = fsys
            ELSE /\ fsys.manifest.state = "ok"
                 /\ fsys' = [fsys EXCEPT !.manifest =
                                [fsys.manifest EXCEPT !.name = options.projectName,
                                                      !.version = NewVersion]]
        /\ (pc = "updatePackageJson" /\ fsys.manifest.state # "ok") => pc' = "exited"
        /\ (Len(log') > Len(log) /\ Last(log') = E.install) =>
            /\ fsys.manifest.state = "ok"
            /\ fsys.manifest.name = options.projectName
            /\ fsys.manifest.version = NewVersion
            /\ fsys.manifest.rest = TemplateManifest.rest

TailwindScenario ==
    /\ variant \in {"prompts", "flags"}
    /\ options.projectName = S_myApp
    /\ options.packageManager = S.pnpm
    /\ options.tailwind
    /\ ~options.i18n /\ ~options.authPages /\ ~options.reactQuery

\* src/index.css is the one directive @import "tailwindcss"; (line breaks
\* aside) and vite.config.ts has the plugin import once and the registration
\* once
TailwindConfigured(files) ==
    /\ Exists(files[File.css])
    /\ SelectSeq(files[File.css], LAMBDA a : a # A.nl) = <<"@import \"tailwindcss\";">>
    /\ Exists(files[File.vite])
    /\ Occurrences(files[File.vite], A.twVite) = 1
    /\ Occurrences(files[File.vite], A.twCall) = 1

\* the template files Tailwind is set up in are there, with the anchors both
\* scripts look for and no mention of Tailwind yet
TailwindAnchorsPresent(files) ==
    /\ Exists(files[File.css])
    /\ Exists(files[File.vite])
    /\ Occurrences(files[File.vite], A.impDefine) = 1
    /\ Occurrences(files[File.vite], A.exportDefine) = 1
    /\ Occurrences(files[File.vite], A.plugins) = 1
    /\ Occurrences(files[File.vite], A.twVite) = 0
    /\ Occurrences(files[File.vite], A.twCall) = 0

TailwindScenarioStep ==
    TailwindScenario =>
        /\ (pc = "tailwind" /\ pc' # "exited" /\ TailwindAnchorsPresent(fsys.files))
                => TailwindConfigured(fsys'.files)
        /\ (pc # "tailwind" /\ \E i \in 1..Len(log) : log[i] = E.tailwindFiles)
                => /\ fsys'.files[File.css] = fsys.files[File.css]
                   /\ fsys'.files[File.vite] = fsys.files[File.vite]

AfterCd(cmd) ==
    IF Len(cmd) >= Len(CdProject) /\ SubSeq(cmd, 1, Len(CdProject)) = CdProject
    THEN SubSeq(cmd, Len(CdProject) + 1, Len(cmd))
    ELSE cmd

\* the verb of an install command (its first two words) and what follows it:
\* flags and packages
VerbOf(cmd) == SubSeq(AfterCd(cmd), 1, 2)
ArgumentsOf(cmd) == SubSeq(AfterCd(cmd), 3, Len(AfterCd(cmd)))

\* C20: the install command a composer of the prompts or the flag-based
\* script has built starts with `npm install` for npm and with `<pm> add` for
\* pnpm, yarn and bun, and its flags and packages are those of the command the
\* same composer builds for every other package manager.
C20_InstallCommandVerb ==
    (variant \in {"prompts", "flags"} /\ pc # "installCommand" /\ fout # <<>>) =>
        /\ VerbOf(fout) = (IF options.packageManager = S.npm
                           THEN <<"npm", "install">>
                           ELSE <<Word(options.packageManager), "add">>)
        /\ \A pm \in PackageManagers :
              ArgumentsOf(installCommand(variant, Selected(options), pm)) = ArgumentsOf(fout)

Range(s) == {s[i] : i \in 1..Len(s)}

\* the atoms a clone can bring in, and the atoms of a file that are not among
\* them: what stages and composers have put there
TemplateAtoms == UNION {Range(t.files[p]) : t \in Templates, p \in Paths}
EditedAtoms(files, p) == Range(files[p]) \ TemplateAtoms

\* a step that ends a run whose clone had succeeded
AbortStep ==
    /\ fsys.target = "project"
    /\ pc # "exited" /\ pc' = "exited" /\ exitCode' = 1

NoRollbackStep ==
    AbortStep =>
        /\ fsys'.target = "project"
        /\ fsys'.manifest = fsys.manifest
        /\ fsys'.bin = fsys.bin /\ fsys'.lock = fsys.lock /\ fsys'.git = fsys.git
        /\ fsys.localesDir => fsys'.localesDir
        /\ \A p \in Paths :
              /\ Exists(fsys.files[p]) => Exists(fsys'.files[p])
              /\ EditedAtoms(fsys.files, p) \subseteq Range(fsys'.files[p])

\* C21: a step that aborts a run after a successful clone leaves the project
\* directory in place, deletes nothing (manifest, bin, lock file, .git,
\* locales, every file that existed) and keeps in every file the text the
\* earlier stages and composers had put there.
C21_NoRollback == [][NoRollbackStep]_vars

\* C21 witness: the prompts script has aborted on the failed install of the
\* i18n packages, and the Tailwind set-up made before is still in
\* vite.config.ts and the rewritten manifest is still there
C21_Witness ==
    /\ variant = "prompts" /\ pc = "exited" /\ exitCode = 1
    /\ Len(log) >= 1 /\ Last(log) = E.addI18n
    /\ fsys.target = "project"
    /\ fsys.manifest.version = NewVersion
    /\ A.twCall \in Range(fsys.files[File.vite])

\* the effects of the composers that have run so far, in the order they
\* happened, and the place of each in the sequence tailwind, data-fetching,
\* i18n, auth-pages (install step before file edits)
ComposerEffects == FeatureInstalls \cup ComposerEdits
ComposerLog == SelectSeq(log, LAMBDA e : e \in ComposerEffects)
ComposerRank(e) ==
    CASE e = E.addTailwind -> 1 [] e = E.tailwindFiles -> 2
      [] e = E.addReactQuery -> 3 [] e = E.reactQueryFiles -> 4
      [] e = E.addI18n -> 5 [] e = E.i18nFiles -> 6
      [] e = E.authFiles -> 7
FeatureOf(e) ==
    CASE e \in {E.addTailwind, E.tailwindFiles} -> options.tailwind
      [] e \in {E.addReactQuery, E.reactQueryFiles} -> options.reactQuery
      [] e \in {E.addI18n, E.i18nFiles} -> options.i18n
      [] e = E.authFiles -> options.authPages

C23_OrderIndependent ==
    pc = "composed" => fsys.files = composeInSequence(options, fs0.files)

\* a tree in which every inserted symbol that is referenced has its import:
\* tailwindcss() with '@tailwindcss/vite', the <I18nextProvider> wrapper with
\* the I18nextProvider and i18n imports, the <QueryClientProvider> wrapper
\* with the QueryClient import and the queryClient construction,
\* <ReactQueryDevtools /> with its import
ImportsConsistent(files) ==
    /\ (Exists(files[File.vite]) /\ A.twCall \in Range(files[File.vite]))
            => A.twVite \in Range(files[File.vite])
    /\ (Exists(files[File.main]) /\ includes(files[File.main], <<"<", A.I18nextProvider>>))
            => /\ includes(files[File.main], T.providerImport)
               /\ includes(files[File.main], T.i18nImport)
    /\ (Exists(files[File.main]) /\ includes(files[File.main], <<"<", A.QueryClientProvider>>))
            => /\ includes(files[File.main], T.queryImport)
               /\ includes(files[File.main], T.queryClient)
    /\ (Exists(files[File.root]) /\ A.rqDevtoolsTag \in Range(files[File.root]))
            => includes(files[File.root], T.devtoolsImport)

\* C24: after a composer of the prompts or the flag-based script has run on
\* a tree that referenced no inserted symbol without its import, the tree
\* still references none without its import.
C24_SymbolsHaveImports ==
    (variant \in {"prompts", "flags"} /\ pc \in {"once", "twice"} /\ ImportsConsistent(fs0.files))
        => ImportsConsistent(fsys.files)

\* the places where a text occurs in a file
PlacesOf(content, pat) ==
    {k \in 1..(Len(content) - Len(pat) + 1) : SubSeq(content, k, k + Len(pat) - 1) = pat}

\* the element <tag ...> ... </tag> occurs once in the file and the one
\* RouterProvider element is inside it
WrapsRouterOnce(content, tag) ==
    /\ Cardinality(PlacesOf(content, <<"<", tag>>)) = 1
    /\ Cardinality(PlacesOf(content, <<"</", tag>>)) = 1
    /\ \A o \in PlacesOf(content, <<"<", tag>>), r \in PlacesOf(content, <<A.router>>),
          c \in PlacesOf(content, <<"</", tag>>) : o < r /\ r < c

\* main.tsx as cloned has the anchors of both composers and no provider yet
MainHasAnchors(content) ==
    /\ Exists(content)
    /\ Cardinality(PlacesOf(content, <<A.cssSingle>>)) >= 1
    /\ Cardinality(PlacesOf(content, <<A.routeTree>>)) >= 1
    /\ Cardinality(PlacesOf(content, <<A.router>>)) = 1
    /\ ~includes(content, <<A.I18nextProvider>>)
    /\ ~includes(content, <<A.QueryClientProvider>>)

\* C25: when the data-fetching and the i18n composer have both run on a
\* main.tsx that had the anchors, main.tsx has one RouterProvider element,
\* inside one QueryClientProvider and inside one I18nextProvider element, and
\* the import of each provider, the i18n import and the queryClient
\* construction once each.
C25_BothWrappers ==
    (pc = "composed" /\ options.reactQuery /\ options.i18n /\ MainHasAnchors(fs0.files[File.main])) =>
        LET m == fsys.files[File.main] IN
        /\ Cardinality(PlacesOf(m, <<A.router>>)) = 1
        /\ WrapsRouterOnce(m, A.QueryClientProvider)
        /\ WrapsRouterOnce(m, A.I18nextProvider)
        /\ Cardinality(PlacesOf(m, T.queryImport)) = 1
        /\ Cardinality(PlacesOf(m, T.queryClient)) = 1
        /\ Cardinality(PlacesOf(m, T.providerImport)) = 1
        /\ Cardinality(PlacesOf(m, T.i18nImport)) = 1

\* C25 witness: both composers have run in the order of main() on the
\* main.tsx of the template, and the I18nextProvider element is inside the
\* QueryClientProvider element
C25_Witness ==
    /\ pc = "composed" /\ options.reactQuery /\ options.i18n
    /\ fs0.files[File.main] = StandardFiles[File.main]
    /\ SelectSeq(log, LAMBDA e : e \in {E.reactQueryFiles, E.i18nFiles}) = <<E.reactQueryFiles, E.i18nFiles>>
    /\ WrapsRouterOnce(fsys.files[File.main], A.I18nextProvider)
    /\ \A q \in PlacesOf(fsys.files[File.main], <<"<", A.QueryClientProvider>>),
          i \in PlacesOf(fsys.files[File.main], <<"<", A.I18nextProvider>>) : q < i

\* C26: nothing outside the project directory is created, changed or
\* deleted: the bin folder of the caller's working directory is as it was
\* when the script started, no deletion in <cwd> has happened, and as long
\* as no clone has made the project directory the filesystem is as it was.
C26_WritesInsideProject ==
    /\ fsys.cwdBin = fs0.cwdBin
    /\ \A i \in 1..Len(log) : log[i] # E.rmCwdBin
    /\ fsys.target # "project" => fsys = fs0

====
